---- MODULE Spec2Model ----
(***************************************************************************)
(* kingdom-python-core: the transactional core.                            *)
(*   domain/model/entity.py   Entity (version, discard flag, timestamps)   *)
(*   adapters/unit_of_work.py BaseUnitOfWork (scope, commit, harvesting)   *)
(*   adapters/query.py        DQLInterface                                 *)
(*   domain/message.py        Message, PersistentMessage (the codec)       *)
(* Aggregate (the pending-event queue), AbstractUnitOfWork (commit,        *)
(* rollback, the base __enter__, __exit__), the repositories, utils.time    *)
(* and utils.loader are modules of the repository that are not among the   *)
(* sources; they are modelled from the specification and marked so in the  *)
(* model map.                                                              *)
(***************************************************************************)
EXTENDS Naturals, Sequences, FiniteSets, TLC

\* ------------------------------------------------------------------ bounds
MaxVersion == 2
MaxTime == 2
MaxEvents == 2
MaxEnters == 2
MaxGens == 2

\* ------------------------------------------------------------- carrier sets
UoWs == {"u1", "u2"}
Aggs == {"a1", "a2"}
SessIds == 1..MaxEnters
GenIds == 1..MaxGens
\* an in-memory aggregate object: the one session k of unit of work u holds
\* for id a (a session's identity map holds one object per id)
Obj == UoWs \X SessIds \X Aggs
\* the entity exercised by the entity specification
EntityObjs == {<<"u1", 1, "a1">>}
InitVersions == {0, 1}
\* BaseUnitOfWork.__annotations__ of a concrete unit of work, each name as its
\* characters: _errors, _session_factory, _session, two repositories that
\* track _seen and one repository type that has no _seen attribute
Annotations == {<<"_", "e">>, <<"_", "f">>, <<"_", "s">>, <<"r", "1">>, <<"r", "2">>, <<"q">>}

VARIABLES
    constructed,    \* the objects that exist
    version,        \* Entity._version
    is_discarded,   \* Entity._is_discarded
    registered_at,  \* Entity._registered_at
    updated_at,     \* Entity._updated_at
    now,            \* the clock read by time.generate_now()
    version0,       \* history: the version given to the constructor
    calls,          \* history: successful update() calls since construction
    last,           \* history: the last call, its target and its result
    events,         \* Aggregate._events, the pending queue
    raised,         \* history: how many events the object has raised
    opened,         \* how many sessions the unit of work's factory has made
    _session,       \* BaseUnitOfWork._session (0: not yet set)
    fields,         \* BaseUnitOfWork.__dict__ at the repository slots
    scopes,         \* the with-blocks that are open, innermost last
    exc,            \* the exception travelling out of the innermost block
    outcome,        \* history: what the last __exit__ handed to its caller
    sess,           \* the sessions: state and transaction snapshot
    stored,         \* the row version an object was read or written at
    db,             \* the committed rows: aggregate id -> version
    applied,        \* history: the committed writes of each row
    drained,        \* history: the events of each object yielded so far
    gen,            \* the generators collect_new_events() has returned
    yielded,        \* history: what each generator has yielded
    drainedAll,     \* history: a generator ran to its end and nothing changed since
    codec,          \* a Message, its PersistentMessage and what load_object gave
    dql             \* a DQLInterface: its attributes and its execute() call

entVars == <<constructed, version, is_discarded, registered_at, updated_at, version0, calls>>
aggVars == <<events, raised, drained>>
uowVars == <<opened, _session, fields, scopes, exc, outcome>>
sessVars == <<sess, stored>>
dbVars == <<db, applied>>
genVars == <<gen, yielded, drainedAll>>
ioVars == <<codec, dql>>
vars == <<entVars, now, last, aggVars, uowVars, sessVars, dbVars, genVars, ioVars>>

Call(op, o, err) == [op |-> op, obj |-> o, err |-> err]
NoObj == <<"none", 0, "none">>
UObj(u) == <<u, 0, "none">>

\* ------------------------------------------------------------------ Entity
\* utils.time.generate_now(): the current time
generate_now == now

\* Entity.__init__(id, version, is_discarded, created_at); id is the key o
Entity__init__(o, v, d, t) ==
    /\ constructed' = constructed \cup {o}
    /\ version' = [version EXCEPT ![o] = v]
    /\ is_discarded' = [is_discarded EXCEPT ![o] = d]
    /\ registered_at' = [registered_at EXCEPT ![o] = t]
    /\ updated_at' = [updated_at EXCEPT ![o] = t]
    /\ version0' = [version0 EXCEPT ![o] = v]
    /\ calls' = [calls EXCEPT ![o] = 0]

\* a _check_not_discarded that never raises
Mut_check_not_discarded(o) == "none"

\* Entity._check_not_discarded(): the error it raises, or "none"
_check_not_discarded(o) ==
    IF is_discarded[o] THEN "EntityDiscardedError" ELSE "none"

\* an update() that stamps the time but forgets the version
Mut_update_effect(o) ==
    /\ version' = version
    /\ updated_at' = [updated_at EXCEPT ![o] = generate_now]

\* an update() whose version counter wraps around
Mut_update_wraps(o) ==
    /\ version' = [version EXCEPT ![o] = (@ + 1) % 2]
    /\ updated_at' = [updated_at EXCEPT ![o] = generate_now]

\* Entity.update() past the check: the two assignments
update_effect(o) ==
    /\ version' = [version EXCEPT ![o] = @ + 1]
    /\ updated_at' = [updated_at EXCEPT ![o] = generate_now]

\* Entity.update() on the entity's own fields
update_fields(o) ==
    /\ o \in constructed
    /\ version[o] < MaxVersion
    /\ IF _check_not_discarded(o) = "none"
       THEN /\ update_effect(o)
            /\ calls' = [calls EXCEPT ![o] = @ + 1]
       ELSE UNCHANGED <<version, updated_at, calls>>
    /\ UNCHANGED <<constructed, is_discarded, registered_at, version0, now>>
    /\ UNCHANGED <<aggVars, uowVars, sessVars, dbVars, genVars, ioVars>>

\* Entity.update(), called on its own: the caller sees what it raised
update(o) ==
    /\ update_fields(o)
    /\ last' = Call("update", o, _check_not_discarded(o))

\* the soft delete of a concrete entity: is_discarded goes from false to true
discard(o) ==
    /\ o \in constructed
    /\ ~is_discarded[o]
    /\ is_discarded' = [is_discarded EXCEPT ![o] = TRUE]
    /\ last' = Call("discard", o, "none")
    /\ UNCHANGED <<constructed, version, registered_at, updated_at, version0, calls, now>>
    /\ UNCHANGED <<aggVars, uowVars, sessVars, dbVars, genVars, ioVars>>

\* the read accessors id, version, is_discarded
read(o) ==
    /\ o \in constructed
    /\ last' = Call("read", o, "none")
    /\ UNCHANGED <<entVars, now, aggVars, uowVars, sessVars, dbVars, genVars, ioVars>>

\* time passes
Tick ==
    /\ now < MaxTime
    /\ now' = now + 1
    /\ last' = Call("tick", NoObj, "none")
    /\ UNCHANGED <<entVars, aggVars, uowVars, sessVars, dbVars, genVars, ioVars>>

\* the created_at values a caller may hand to the constructor
Times == 0..MaxTime

\* a caller constructs an entity: id, version, is_discarded and created_at are
\* its arguments
Construct(o) ==
    /\ o \notin constructed
    /\ \E v \in InitVersions, d \in BOOLEAN, t \in Times : Entity__init__(o, v, d, t)
    /\ last' = Call("init", o, "none")
    /\ UNCHANGED <<now, aggVars, uowVars, sessVars, dbVars, genVars, ioVars>>

\* --------------------------------------------------------------- Aggregate
\* Aggregate.has_events
has_events(o) == events[o] # <<>>

\* a next_event that takes the newest event
Mut_next_event(q) == [ev |-> q[Len(q)], left |-> SubSeq(q, 1, Len(q) - 1)]

\* Aggregate.next_event on the queue q: the event returned, the queue left
next_event(q) == [ev |-> Head(q), left |-> Tail(q)]

\* ---------------------------------------------------- sessions and storage
DbInit == [a \in Aggs |-> 0]
NoSnap == [has |-> FALSE, v |-> DbInit]
NewSession == [st |-> "new", snap |-> NoSnap]

\* the rows a transaction of session s sees: its snapshot, taken at its
\* first read (REPEATABLE READ)
Snapshot(s) == IF s.snap.has THEN s.snap ELSE [has |-> TRUE, v |-> db]

\* the objects session _session of u would flush: attached to it and changed
Dirty(u) ==
    {o \in constructed :
        /\ o[1] = u
        /\ _session[u] # 0
        /\ o[2] = _session[u]
        /\ sess[u][_session[u]].st = "open"
        /\ version[o] # stored[o]}

\* an isolation level that lets a stale write through
Mut_VersionDiffers(u) == FALSE

\* DEFAULT_SESSION_FACTORY's isolation level at commit: a written row whose
\* committed version is no longer the one this transaction read
VersionDiffers(u) == \E o \in Dirty(u) : db[o[3]] # stored[o]

\* the committed rows once the session of u has flushed and committed
Flushed(u) ==
    [a \in Aggs |-> IF \E o \in Dirty(u) : o[3] = a
                    THEN version[CHOOSE o \in Dirty(u) : o[3] = a]
                    ELSE db[a]]

\* ------------------------------------------------------------ Unit of Work
\* str.startswith("_") on an annotation name
startswith_underscore(f) == Len(f) > 0 /\ f[1] = "_"

\* BaseUnitOfWork._repositories: the annotations that name no private field
_repositories == {f \in Annotations : ~startswith_underscore(f)}

\* whether the repository type annotated at f has a _seen attribute
RepositoryTracks(f) == f # <<"q">>

NoField == [set |-> FALSE, session |-> 0, seen |-> {}]

\* repository(session): a repository instance bound to session k
Repository(k) == [set |-> TRUE, session |-> k, seen |-> {}]

\* BaseUnitOfWork._initilize_fields(session): __dict__ afterwards
_initilize_fields(u, k) ==
    [f \in Annotations |-> IF f \in _repositories THEN Repository(k) ELSE fields[u][f]]

\* hasattr(field, "_seen") for the field stored at f
hasattr_seen(u, f) == fields[u][f].set /\ RepositoryTracks(f)

\* the aggregates the repositories of u have seen
Touched(u) == UNION {fields[u][f].seen : f \in Annotations}

\* a generator that is running or finished is disturbed when the queues or the
\* seen sets it started from change under it (history)
Disturb(u, but) ==
    [g \in GenIds |-> IF g # but /\ gen[u][g].st \in {"running", "done"}
                      THEN [gen[u][g] EXCEPT !.disturbed = TRUE]
                      ELSE gen[u][g]]

InScope(u) == Len(scopes[u]) > 0

\* the caller's block is running and the session of the object o is open
InBlock(o) == InScope(o[1]) /\ exc[o[1]] = "none" /\ sess[o[1]][o[2]].st = "open"

\* BaseUnitOfWork.__enter__
__enter__(u) ==
    /\ opened[u] < MaxEnters
    /\ exc[u] = "none"
    /\ LET k == opened[u] + 1 IN
        /\ opened' = [opened EXCEPT ![u] = k]
        /\ sess' = [sess EXCEPT ![u][k] = [st |-> "open", snap |-> NoSnap]]
        /\ _session' = [_session EXCEPT ![u] = k]
        /\ fields' = [fields EXCEPT ![u] = _initilize_fields(u, k)]
        /\ scopes' = [scopes EXCEPT ![u] = Append(@, [sess |-> k, committed |-> FALSE])]
    /\ gen' = [gen EXCEPT ![u] = Disturb(u, 0)]
    /\ drainedAll' = [drainedAll EXCEPT ![u] = FALSE]
    /\ UNCHANGED <<exc, outcome, stored, dbVars, yielded, entVars, aggVars, now, last, ioVars>>

\* a _rollback that commits
Mut_rollback_commits(u) == [db |-> Flushed(u), events |-> events]

\* a _rollback that also empties the queues of the session's aggregates
Mut_rollback_clears(u) ==
    [db |-> db, events |-> [o \in Obj |-> IF o[1] = u THEN <<>> ELSE events[o]]]

\* BaseUnitOfWork._rollback: session.rollback() leaves the committed rows and
\* the aggregates in memory as they are
_rollback(u) == [db |-> db, events |-> events]

\* BaseUnitOfWork._commit: session.commit() flushes and commits
_commit(u) == [db |-> Flushed(u)]

\* AbstractUnitOfWork.__exit__: rollback(); the error it raises, if the
\* session's rollback fails
Abstract__exit__(fails) == IF fails THEN "RollbackStorageError" ELSE "none"

\* BaseUnitOfWork.__exit__; fails: the session's rollback raises
__exit__(u, fails) ==
    /\ InScope(u)
    /\ LET k == _session[u]
           top == scopes[u][Len(scopes[u])]
           err == Abstract__exit__(fails)
           \* line 49 is reached only when line 48 returns
           sessU == IF err = "none"
                    THEN [sess[u] EXCEPT ![k] = [st |-> "closed", snap |-> NoSnap]]
                    ELSE sess[u]
           out == IF err = "none" THEN exc[u] ELSE err
           after == IF err = "none" THEN _rollback(u) ELSE [db |-> db, events |-> events]
       IN
        /\ fails => sess[u][k].st = "open"
        /\ sess' = [sess EXCEPT ![u] = sessU]
        /\ db' = after.db
        /\ events' = after.events
        /\ outcome' = [outcome EXCEPT ![u] =
                [kind |-> IF out = "none" THEN "return" ELSE "raise",
                 exc |-> out, blockExc |-> exc[u], sess |-> top.sess,
                 released |-> sessU[top.sess].st = "closed",
                 committed |-> top.committed]]
        /\ scopes' = [scopes EXCEPT ![u] = SubSeq(@, 1, Len(@) - 1)]
        /\ exc' = [exc EXCEPT ![u] = IF Len(scopes[u]) > 1 THEN out ELSE "none"]
    /\ UNCHANGED <<opened, _session, fields, stored, applied, genVars, entVars, raised, drained, now, last, ioVars>>

\* AbstractUnitOfWork.commit() -> _commit(); fails: the storage fails
commit(u, fails) ==
    /\ InScope(u)
    /\ exc[u] = "none"
    /\ LET k == _session[u]
           err == IF fails THEN "StorageError"
                  ELSE IF VersionDiffers(u) THEN "ConcurrencyConflictError" ELSE "none"
           written == Dirty(u)
       IN
        /\ fails => sess[u][k].st = "open"
        /\ IF err = "none"
           THEN /\ db' = _commit(u).db
                /\ stored' = [o \in Obj |-> IF o \in written THEN version[o] ELSE stored[o]]
                /\ applied' = [a \in Aggs |->
                        IF \E o \in written : o[3] = a
                        THEN LET o == CHOOSE p \in written : p[3] = a
                             IN Append(applied[a], [by |-> u, basis |-> stored[o], new |-> version[o]])
                        ELSE applied[a]]
                /\ sess' = [sess EXCEPT ![u][k].snap = NoSnap]
                /\ scopes' = [scopes EXCEPT ![u] =
                        [i \in 1..Len(scopes[u]) |-> [scopes[u][i] EXCEPT !.committed = TRUE]]]
                /\ exc' = exc
           ELSE /\ exc' = [exc EXCEPT ![u] = err]
                /\ UNCHANGED <<dbVars, stored, sess, scopes>>
    /\ UNCHANGED <<opened, _session, fields, outcome, genVars, entVars, aggVars, now, last, ioVars>>

\* a repository of the scope returns the aggregate a: the object of the
\* session's identity map, read in the session's snapshot when it is new
Load(u, f, a) ==
    /\ InScope(u)
    /\ exc[u] = "none"
    /\ f \in _repositories
    /\ fields[u][f].set
    /\ LET k == fields[u][f].session
           o == <<u, k, a>>
           sn == Snapshot(sess[u][k])
       IN
        /\ sess[u][k].st = "open"
        /\ sess' = [sess EXCEPT ![u][k].snap = sn]
        /\ IF o \in constructed
           THEN UNCHANGED <<entVars, stored>>
           ELSE /\ Entity__init__(o, sn.v[a], FALSE, generate_now)
                /\ stored' = [stored EXCEPT ![o] = sn.v[a]]
        /\ fields' = [fields EXCEPT ![u][f].seen =
                IF RepositoryTracks(f) THEN @ \cup {o} ELSE @]
    /\ gen' = [gen EXCEPT ![u] = Disturb(u, 0)]
    /\ drainedAll' = [drainedAll EXCEPT ![u] = FALSE]
    /\ UNCHANGED <<opened, _session, scopes, exc, outcome, dbVars, yielded, aggVars, now, last, ioVars>>

\* Aggregate._add_event: the aggregate raises its next event
_add_event(o) ==
    /\ o \in constructed
    /\ raised[o] < MaxEvents
    /\ raised' = [raised EXCEPT ![o] = @ + 1]
    /\ events' = [events EXCEPT ![o] = Append(@, <<o, raised[o] + 1>>)]
    /\ gen' = [gen EXCEPT ![o[1]] = Disturb(o[1], 0)]
    /\ drainedAll' = [drainedAll EXCEPT ![o[1]] = FALSE]
    /\ UNCHANGED <<entVars, uowVars, sessVars, dbVars, yielded, drained, now, last, ioVars>>

\* the protected block raises
BlockRaises(u) ==
    /\ InScope(u)
    /\ exc[u] = "none"
    /\ exc' = [exc EXCEPT ![u] = "BlockError"]
    /\ UNCHANGED <<opened, _session, fields, scopes, outcome, sessVars, dbVars, genVars, entVars, aggVars, now, last, ioVars>>

\* ------------------------------------------------------ collect_new_events
\* disturbed, afterDrain, afterExit and exit0 are history: whether the queues
\* or seen sets changed under the generator since its first next(), and what
\* had happened when its first next() ran
NoGen ==
    [st |-> "idle", cur |-> NoObj, rest |-> {}, disturbed |-> FALSE,
     afterDrain |-> FALSE, afterExit |-> FALSE, exit0 |-> "none"]

\* a collection that looks at the first repository only
Mut_collect_dirty(u) ==
    UNION {fields[u][f].seen : f \in {h \in _repositories : hasattr_seen(u, h) /\ h = <<"r", "1">>}}

\* collect_new_events, lines 58-63: the union of the _seen sets of the fields
\* that have one
collect_dirty(u) ==
    UNION {fields[u][f].seen : f \in {h \in _repositories : hasattr_seen(u, h)}}

\* self.__dict__[field_name] raises KeyError before the first __enter__
collect_keyerror(u) == \E f \in _repositories : ~fields[u][f].set

\* collect_new_events(): the call returns a generator; no line of the body
\* runs before the first next()
collect_new_events(u, g) ==
    /\ exc[u] = "none"
    /\ gen[u][g].st = "idle"
    /\ \A h \in GenIds : h < g => gen[u][h].st # "idle"
    /\ gen' = [gen EXCEPT ![u][g] = [NoGen EXCEPT !.st = "created"]]
    /\ UNCHANGED <<entVars, aggVars, uowVars, sessVars, dbVars, yielded, drainedAll, now, last, ioVars>>

\* the caller drops the generator g, finished or not
gen_close(u, g) ==
    /\ exc[u] = "none"
    /\ gen[u][g].st # "idle"
    /\ gen' = [gen EXCEPT ![u][g] = NoGen]
    /\ yielded' = [yielded EXCEPT ![u][g] = <<>>]
    /\ UNCHANGED <<entVars, aggVars, uowVars, sessVars, dbVars, drainedAll, now, last, ioVars>>

\* a yield that also empties the queue of every other aggregate
Mut_Yield_clears(u, g, G, o, rest) ==
    LET q == next_event(events[o]) IN
        /\ events' = [x \in Obj |-> IF x = o THEN q.left ELSE <<>>]
        /\ yielded' = [yielded EXCEPT ![u][g] = Append(@, q.ev)]
        /\ drained' = [drained EXCEPT ![o] = Append(@, q.ev)]
        /\ gen' = [gen EXCEPT ![u] =
                [Disturb(u, g) EXCEPT ![g] = [G EXCEPT !.st = "running", !.cur = o, !.rest = rest]]]
        /\ UNCHANGED drainedAll

\* a yield that reads the head of the queue and leaves it there
Mut_Yield_keeps(u, g, G, o, rest) ==
    LET q == next_event(events[o]) IN
        /\ events' = events
        /\ yielded' = [yielded EXCEPT ![u][g] = Append(@, q.ev)]
        /\ drained' = [drained EXCEPT ![o] = Append(@, q.ev)]
        /\ gen' = [gen EXCEPT ![u] =
                [Disturb(u, g) EXCEPT ![g] = [G EXCEPT !.st = "running", !.cur = o, !.rest = rest]]]
        /\ UNCHANGED drainedAll

\* the generator g yields the next event of o and keeps `rest` to visit
Yield(u, g, G, o, rest) ==
    LET p == next_event(events[o]) IN
        /\ events' = [events EXCEPT ![o] = p.left]
        /\ yielded' = [yielded EXCEPT ![u][g] = Append(@, p.ev)]
        /\ drained' = [drained EXCEPT ![o] = Append(@, p.ev)]
        /\ gen' = [gen EXCEPT ![u] =
                [Disturb(u, g) EXCEPT ![g] = [G EXCEPT !.st = "running", !.cur = o, !.rest = rest]]]
        /\ UNCHANGED drainedAll

\* line 65 with the current aggregate drained: the for loop ends when no
\* aggregate left to visit has events
loop_done(cur, rest) == \A o \in rest : ~has_events(o)

\* an `if` in the place of the `while`: one event for each aggregate
Mut_while_has_events(cur) == FALSE

\* line 66: the while loop goes on with the aggregate it is at
while_has_events(cur) == cur # NoObj /\ has_events(cur)

\* next() on the generator g: the body runs to its next yield or to its end
gen_next(u, g) ==
    /\ exc[u] = "none"
    /\ gen[u][g].st \in {"created", "running"}
    /\ LET first == gen[u][g].st = "created" IN
        IF first /\ collect_keyerror(u)
        THEN /\ gen' = [gen EXCEPT ![u][g].st = "error"]
             /\ UNCHANGED <<events, yielded, drained, drainedAll>>
        ELSE LET cur == gen[u][g].cur
                 rest == IF first THEN collect_dirty(u) ELSE gen[u][g].rest
                 G == IF first
                      THEN [gen[u][g] EXCEPT
                              !.afterDrain = drainedAll[u],
                              !.afterExit = ~InScope(u) /\ outcome[u].kind # "none",
                              !.exit0 = IF outcome[u].committed THEN "committed"
                                        ELSE IF outcome[u].blockExc = "none" THEN "nocommit"
                                        ELSE outcome[u].blockExc]
                      ELSE gen[u][g]
             IN IF while_has_events(cur)
                THEN Yield(u, g, G, cur, rest)
                ELSE \/ /\ ~loop_done(cur, rest)
                        /\ \E o \in rest :
                             /\ has_events(o)
                             /\ \E S \in SUBSET {p \in rest \ {o} : ~has_events(p)} :
                                  Yield(u, g, G, o, rest \ (S \cup {o}))
                     \/ /\ loop_done(cur, rest)
                        /\ gen' = [gen EXCEPT ![u][g] = [G EXCEPT !.st = "done", !.cur = NoObj, !.rest = {}]]
                        /\ drainedAll' = [drainedAll EXCEPT ![u] = ~G.disturbed]
                        /\ UNCHANGED <<events, yielded, drained>>
    /\ UNCHANGED <<entVars, raised, uowVars, sessVars, dbVars, now, last, ioVars>>

\* ------------------------------------------------------- the message codec
\* the concrete Message types of an application and the modules they live in
Classes == {"MyCommand", "MyEvent"}
Module(c) == IF c = "MyCommand" THEN "app.commands" ELSE "app.events"

\* the dataclass fields: Message has raised_at and delay, Event adds
\* raised_by; the concrete types add a payload field
Fields(c) ==
    IF c = "MyEvent" THEN {"raised_at", "delay", "raised_by", "payload"}
    ELSE {"raised_at", "delay", "payload"}

\* field values: a plain value (timestamp, number, id), a nested value
\* object (a frozen dataclass Money(amount)), or a dict {"amount": n}
Atoms == {0, 1}
Atom(n) == [tag |-> "plain", v |-> n]
Money(n) == [tag |-> "Money", v |-> n]
DictOf(n) == [tag |-> "dict", v |-> n]
Values == {Atom(n) : n \in Atoms} \cup {Money(1)}

\* the Message instances: plain base fields, any value as payload
Messages ==
    UNION {{[cls |-> c, data |-> d] : d \in {e \in [Fields(c) -> Values] :
                \A f \in Fields(c) \ {"payload"} : e[f].tag = "plain"}} : c \in Classes}

NoData == [f \in Fields("MyCommand") |-> Atom(0)]
NoMsg == [cls |-> "", data |-> NoData]
NoRec == [module |-> "", classname |-> "", data |-> NoData]
NoRes == [err |-> "none", obj |-> NoMsg]
NoCodec == [m |-> NoMsg, made |-> FALSE, rec |-> NoRec, loaded |-> FALSE, res |-> NoRes, defined |-> Classes]

\* dataclasses._asdict_inner: a dataclass instance becomes the dict of its
\* fields, recursively; any other value is copied
asdict_inner(x) == IF x.tag = "Money" THEN DictOf(x.v) ELSE x

\* dataclasses.asdict(message)
asdict(m) == [f \in DOMAIN m.data |-> asdict_inner(m.data[f])]

\* PersistentMessage.create(message)
create(m) == [module |-> Module(m.cls), classname |-> m.cls, data |-> asdict(m)]

\* loader.object_from_module(module, classname) with the types in `defined`
object_from_module(module, classname, defined) ==
    IF classname \in defined /\ Module(classname) = module
    THEN [err |-> "none", cls |-> classname]
    ELSE [err |-> "TypeResolutionError", cls |-> ""]

\* cls(**data): the generated dataclass __init__ takes exactly the fields by
\* keyword and stores the values as given
construct(c, data) ==
    IF DOMAIN data = Fields(c)
    THEN [err |-> "none", obj |-> [cls |-> c, data |-> data]]
    ELSE [err |-> "TypeError", obj |-> NoMsg]

\* a load_object that hands back an object of the recorded name when the
\* type cannot be resolved
Mut_load_object(rec, defined) ==
    [err |-> "none", obj |-> [cls |-> rec.classname, data |-> rec.data]]

\* PersistentMessage.load_object(): the error raised, or the object returned
load_object(rec, defined) ==
    LET r == object_from_module(rec.module, rec.classname, defined) IN
        IF r.err # "none" THEN [err |-> r.err, obj |-> NoMsg]
        ELSE construct(r.cls, rec.data)

\* Message.__eq__ of a frozen dataclass: same class, equal fields
message_eq(a, b) == a.cls = b.cls /\ a.data = b.data

codecFrame == UNCHANGED <<entVars, now, last, aggVars, uowVars, sessVars, dbVars, genVars, dql>>

\* PersistentMessage.create(m) on the message at hand
Create ==
    /\ ~codec.made
    /\ codec' = [codec EXCEPT !.made = TRUE, !.rec = create(codec.m)]
    /\ codecFrame

\* the record is stored; meanwhile the type c is renamed or removed
RemoveType(c) ==
    /\ c \in codec.defined
    /\ codec' = [codec EXCEPT !.defined = @ \ {c}, !.loaded = FALSE, !.res = NoRes]
    /\ codecFrame

\* record.load_object() on the stored record
LoadObject ==
    /\ codec.made
    /\ ~codec.loaded
    /\ codec' = [codec EXCEPT !.loaded = TRUE, !.res = load_object(codec.rec, codec.defined)]
    /\ codecFrame

\* the unit of work instance the caller works with
Caller == "u1"

\* ------------------------------------------------------------ DQLInterface
\* template files and what they hold
Paths == {"p1", "p2"}
FileAt(path) == IF path = "p1" THEN "select1" ELSE "select2"
\* the named parameters of a call
ParamSets == {"x1", "x2"}
NoQuery == [sql |-> "", style |-> "", bind |-> ""]
NoPassed == [query |-> NoQuery, session |-> 0]
\* st: none (not constructed), ready, built (statement built, the with-block
\* not yet past execute_native_sql), executed, returned, raised
NoDql ==
    [st |-> "none", arg |-> "unset", _sql_file |-> "unset", class_sql_file_path |-> "unset",
     params |-> "", commit |-> FALSE, built |-> NoQuery, base |-> 0,
     passed |-> NoPassed, err |-> "none"]

\* DQLInterface.__init__(sql_file_path) on an instance of a class that is
\* DQLInterface itself (cp = "unset") or a subclass that defines the class
\* attribute _sql_file_path = cp
DQLInterface__init__(p, cp) ==
    /\ dql.st = "none"
    /\ dql' = [NoDql EXCEPT !.st = "ready", !.arg = p, !._sql_file = p, !.class_sql_file_path = cp]
    /\ UNCHANGED <<entVars, now, last, aggVars, uowVars, sessVars, dbVars, genVars, codec>>

\* self._sql_file_path: the instance has no such attribute (__init__ sets
\* _sql_file), so the lookup goes to the class
getattr_sql_file_path(d) == d.class_sql_file_path

\* JinjaSql(param_style="named").prepare_query(file_content, params)
prepare_query(file_content, params) == [sql |-> file_content, style |-> "named", bind |-> params]

\* JinjaTemplateSqlMixin.build_statement(**params)
build_statement(d, params) ==
    LET path == getattr_sql_file_path(d) IN
        IF path = "unset" THEN [err |-> "AttributeError", query |-> NoQuery]
        ELSE [err |-> "none", query |-> prepare_query(FileAt(path), params)]

\* DQLInterface.execute(uow, commit, **params), line 31: the statement is
\* built before the scope is entered
execute(commit_, params) ==
    /\ dql.st = "ready"
    /\ exc[Caller] = "none"
    /\ LET r == build_statement(dql, params) IN
        dql' = [dql EXCEPT !.st = IF r.err = "none" THEN "built" ELSE "raised",
                           !.err = r.err, !.built = r.query, !.params = params,
                           !.commit = commit_, !.base = Len(scopes[Caller])]
    /\ UNCHANGED <<entVars, now, last, aggVars, uowVars, sessVars, dbVars, genVars, codec>>

\* execute, line 32: with uow
execute_with ==
    /\ dql.st = "built"
    /\ Len(scopes[Caller]) = dql.base
    /\ __enter__(Caller)

\* execute, line 33: uow.execute_native_sql(query, **bind_params)
execute_native_sql ==
    /\ dql.st = "built"
    /\ Len(scopes[Caller]) = dql.base + 1
    /\ exc[Caller] = "none"
    /\ dql' = [dql EXCEPT !.st = "executed",
                           !.passed = [query |-> dql.built, session |-> _session[Caller]]]
    /\ UNCHANGED <<entVars, now, last, aggVars, uowVars, sessVars, dbVars, genVars, codec>>

\* execute, lines 34-35: if commit: uow.commit()
execute_commit ==
    /\ dql.st = "executed"
    /\ dql.commit
    /\ Len(scopes[Caller]) = dql.base + 1
    /\ ~scopes[Caller][Len(scopes[Caller])].committed
    /\ commit(Caller, FALSE)

\* execute, line 36 inside the with: the block is left
execute_exit ==
    /\ dql.st = "executed"
    /\ Len(scopes[Caller]) = dql.base + 1
    /\ dql.commit => scopes[Caller][Len(scopes[Caller])].committed
    /\ __exit__(Caller, FALSE)

\* execute, line 36: the result is returned
execute_return ==
    /\ dql.st = "executed"
    /\ Len(scopes[Caller]) = dql.base
    /\ dql' = [dql EXCEPT !.st = "returned"]
    /\ UNCHANGED <<entVars, now, last, aggVars, uowVars, sessVars, dbVars, genVars, codec>>

\* the caller of execute holds a scope of its own open, or not
caller_enter == dql.st \in {"none", "ready"} /\ ~InScope(Caller) /\ __enter__(Caller)
caller_exit == dql.st \notin {"built", "executed"} /\ __exit__(Caller, FALSE)

\* ------------------------------------------------------------ initial state
NoOutcome ==
    [kind |-> "none", exc |-> "none", blockExc |-> "none", sess |-> 0,
     released |-> FALSE, committed |-> FALSE]

InitCore ==
    /\ constructed = {}
    /\ version = [o \in Obj |-> 0]
    /\ is_discarded = [o \in Obj |-> FALSE]
    /\ registered_at = [o \in Obj |-> 0]
    /\ updated_at = [o \in Obj |-> 0]
    /\ version0 = [o \in Obj |-> 0]
    /\ calls = [o \in Obj |-> 0]
    /\ now = 0
    /\ last = Call("none", NoObj, "none")
    /\ events = [o \in Obj |-> <<>>]
    /\ raised = [o \in Obj |-> 0]
    /\ drained = [o \in Obj |-> <<>>]
    /\ opened = [u \in UoWs |-> 0]
    /\ _session = [u \in UoWs |-> 0]
    /\ fields = [u \in UoWs |-> [f \in Annotations |-> NoField]]
    /\ scopes = [u \in UoWs |-> <<>>]
    /\ exc = [u \in UoWs |-> "none"]
    /\ outcome = [u \in UoWs |-> NoOutcome]
    /\ sess = [u \in UoWs |-> [k \in SessIds |-> NewSession]]
    /\ stored = [o \in Obj |-> 0]
    /\ db = DbInit
    /\ applied = [a \in Aggs |-> <<>>]
    /\ gen = [u \in UoWs |-> [g \in GenIds |-> NoGen]]
    /\ yielded = [u \in UoWs |-> [g \in GenIds |-> <<>>]]
    /\ drainedAll = [u \in UoWs |-> FALSE]

Init == InitCore /\ codec = NoCodec /\ dql = NoDql

\* the codec is given any message
InitCodec == InitCore /\ dql = NoDql /\ \E m \in Messages : codec = [NoCodec EXCEPT !.m = m]

\* ---------------------------------------------- the entity specification
NextEntity ==
    \/ \E o \in EntityObjs : Construct(o)
    \/ \E o \in EntityObjs : update(o)
    \/ \E o \in EntityObjs : discard(o)
    \/ \E o \in EntityObjs : read(o)
    \/ Tick

SpecEntity == Init /\ [][NextEntity]_vars

\* ----------------- one unit of work: its scopes, sessions and commits
\* a domain method of a loaded aggregate calls update()
Mutate(o) == InBlock(o) /\ update_fields(o) /\ UNCHANGED last

NextScope ==
    \/ __enter__(Caller)
    \/ \E fails \in BOOLEAN : __exit__(Caller, fails)
    \/ \E fails \in BOOLEAN : commit(Caller, fails)
    \/ Load(Caller, <<"r", "1">>, "a1")
    \/ \E o \in Obj : Mutate(o)
    \/ BlockRaises(Caller)

SpecScope == Init /\ [][NextScope]_vars

\* ------------ one scope of one unit of work: its aggregates and their events
NextEvents ==
    \/ _session[Caller] = 0 /\ __enter__(Caller)
    \/ __exit__(Caller, FALSE)
    \/ \E fails \in BOOLEAN : commit(Caller, fails)
    \/ \E f \in _repositories, a \in Aggs : Load(Caller, f, a)
    \/ \E o \in Obj : InBlock(o) /\ _add_event(o)
    \/ BlockRaises(Caller)
    \/ collect_new_events(Caller, 1)
    \/ gen_next(Caller, 1)
    \/ gen_close(Caller, 1)

SpecEvents == Init /\ [][NextEvents]_vars

\* ------ two units of work on the same aggregate: u2 runs one scope, u1 runs
\* scopes one after another (a caller that retries)
NextConc ==
    \/ \E u \in UoWs : (_session[u] = 0 \/ (u = Caller /\ ~InScope(u))) /\ __enter__(u)
    \/ \E u \in UoWs : __exit__(u, FALSE)
    \/ \E u \in UoWs : commit(u, FALSE)
    \/ \E u \in UoWs : Load(u, <<"r", "1">>, "a1")
    \/ \E o \in Obj : Mutate(o)

SpecConc == Init /\ [][NextConc]_vars

\* ------------------------------------------- the codec on any message
NextCodec ==
    \/ Create
    \/ \E c \in Classes : RemoveType(c)
    \/ LoadObject

SpecCodec == InitCodec /\ [][NextCodec]_vars

\* ---------- one scope, several generators alive at once, consumed in any order
\* the generators the caller holds at the same time
LazyGens == {1, 2}

NextLazy ==
    \/ _session[Caller] = 0 /\ __enter__(Caller)
    \/ \E a \in Aggs : Load(Caller, <<"r", "1">>, a)
    \/ \E o \in Obj : InBlock(o) /\ _add_event(o)
    \/ \E g \in LazyGens : collect_new_events(Caller, g)
    \/ \E g \in LazyGens : gen_next(Caller, g)
    \/ \E g \in LazyGens : gen_close(Caller, g)

SpecLazy == Init /\ [][NextLazy]_vars

\* ------------------- a query run through a unit of work, inside a scope or not
NextQuery ==
    \/ \E p \in Paths, cp \in Paths \cup {"unset"} : DQLInterface__init__(p, cp)
    \/ \E c \in BOOLEAN, params \in ParamSets : execute(c, params)
    \/ execute_with
    \/ execute_native_sql
    \/ execute_commit
    \/ execute_exit
    \/ execute_return
    \/ caller_enter
    \/ caller_exit

SpecQuery == Init /\ [][NextQuery]_vars

\* ------------------------------------------------------------------ claims
\* the events the object o has raised, in the order it raised them
RaisedSeq(o) == [i \in 1..raised[o] |-> <<o, i>>]

\* the events of the object o among the events s
Of(s, o) == SelectSeq(s, LAMBDA e : e[1] = o)

\* the generator g of u ran to its end and nothing was raised, loaded or
\* entered since its first next()
Drained(u, g) == gen[u][g].st = "done" /\ ~gen[u][g].disturbed

\* C1: after n successful update() calls and nothing else that touches the
\* version, the version is the constructor's version plus exactly n.
C1_VersionCountsUpdates ==
    \A o \in constructed : version[o] = version0[o] + calls[o]

C1_Witness ==
    \E o \in constructed : calls[o] = 2 /\ version[o] = version0[o] + 2

\* C2: once is_discarded is true, update() fails with EntityDiscardedError,
\* version, updated_at and is_discarded stay as they were, and is_discarded
\* never becomes false again.
C2_DiscardedIsFrozen ==
    [][\A o \in constructed : is_discarded[o] =>
        /\ is_discarded'[o]
        /\ version'[o] = version[o]
        /\ updated_at'[o] = updated_at[o]
        /\ (last'.op = "update" /\ last'.obj = o => last'.err = "EntityDiscardedError")]_vars

C2_Witness ==
    \E o \in constructed :
        /\ is_discarded[o]
        /\ last = Call("update", o, "EntityDiscardedError")
        /\ calls[o] > 0
        /\ updated_at[o] < now

\* C3: whenever __exit__ hands control back to its caller, on every exit path,
\* the session opened by the matching __enter__ is closed.
C3_SessionClosedOnEveryExit ==
    \A u \in UoWs : outcome[u].kind # "none" => outcome[u].released

C5_OnlyCommitWrites ==
    /\ []((\A a \in Aggs : applied[a] = <<>>) => db = DbInit)
    /\ [][db' # db =>
            /\ \E a \in Aggs : applied'[a] # applied[a]
            /\ \A u \in UoWs : Len(scopes'[u]) = Len(scopes[u])]_vars

C5_Witness ==
    /\ outcome[Caller].kind = "return"
    /\ ~outcome[Caller].committed
    /\ ~InScope(Caller)
    /\ \E o \in constructed : version[o] = 2 /\ stored[o] = 0
    /\ db = DbInit

\* C6: the events of one aggregate are yielded in the order it raised them,
\* in every generator and over all of them, whatever the order of the
\* aggregates.
C6_FifoPerAggregate ==
    \A o \in Obj :
        /\ drained[o] = SubSeq(RaisedSeq(o), 1, Len(drained[o]))
        /\ \A g \in GenIds :
            LET s == Of(yielded[o[1]][g], o) IN
                \A i \in 1..(Len(s) - 1) : s[i + 1][2] = s[i][2] + 1

C6_Witness ==
    LET o1 == <<Caller, 1, "a1">>
        o2 == <<Caller, 1, "a2">>
    IN yielded[Caller][1] = <<<<o2, 1>>, <<o2, 2>>, <<o1, 1>>, <<o1, 2>>>>

\* C7: when a generator has been consumed to its end, the queue of every
\* touched aggregate is empty, and a generator started after that, with no
\* event raised in between, ends without yielding anything.
C7_DrainIsExhaustive ==
    \A u \in UoWs, g \in GenIds : Drained(u, g) =>
        /\ \A o \in Touched(u) : events[o] = <<>>
        /\ gen[u][g].afterDrain => yielded[u][g] = <<>>

C7_Witness ==
    /\ Drained(Caller, 1)
    /\ gen[Caller][1].afterDrain
    /\ yielded[Caller][1] = <<>>
    /\ \E o \in Touched(Caller) : Len(drained[o]) = 2

\* C8: a finished collection has yielded every event raised by every
\* aggregate of every seen set exactly once, also for an aggregate that is in
\* the seen sets of two repositories.
C8_EveryEventOnce ==
    \A u \in UoWs, g \in GenIds : Drained(u, g) =>
        \A o \in Touched(u) : drained[o] = RaisedSeq(o)

C8_Witness ==
    /\ Drained(Caller, 1)
    /\ \E o \in Obj :
        /\ o \in fields[Caller][<<"r", "1">>].seen
        /\ o \in fields[Caller][<<"r", "2">>].seen
        /\ Of(yielded[Caller][1], o) = <<<<o, 1>>, <<o, 2>>>>
    /\ \E o \in Obj :
        /\ o \notin fields[Caller][<<"r", "1">>].seen
        /\ o \in fields[Caller][<<"r", "2">>].seen
        /\ Len(Of(yielded[Caller][1], o)) = 1

\* C9: a collection made after the scope has exited yields the events the
\* touched aggregates still hold, up to the last one raised, whether the
\* scope committed, never committed, failed to commit or raised.
C9_HarvestIgnoresCommit ==
    \A u \in UoWs, g \in GenIds : Drained(u, g) /\ gen[u][g].afterExit =>
        \A o \in Touched(u) :
            LET s == Of(yielded[u][g], o) IN
                /\ Len(drained[o]) = raised[o]
                /\ s = SubSeq(RaisedSeq(o), raised[o] - Len(s) + 1, raised[o])

C9_Witness ==
    /\ Drained(Caller, 1)
    /\ gen[Caller][1].afterExit
    /\ gen[Caller][1].exit0 = "BlockError"
    /\ sess[Caller][1].st = "closed"
    /\ \E o \in Touched(Caller) : yielded[Caller][1] = <<<<o, 1>>, <<o, 2>>>>

\* C10: an exception raised in the protected block reaches the caller of the
\* with-block unchanged, after the session has been released.
C10_BlockExceptionReachesCaller ==
    \A u \in UoWs : outcome[u].blockExc # "none" =>
        /\ outcome[u].kind = "raise"
        /\ outcome[u].exc = outcome[u].blockExc
        /\ outcome[u].released

\* C11: for every Message m, PersistentMessage.create(m).load_object() has
\* the concrete type of m and is equal to m on all fields, also when a field
\* holds a nested value object.
C11_CodecRoundTrip ==
    (codec.loaded /\ codec.m.cls \in codec.defined) =>
        /\ codec.res.err = "none"
        /\ codec.res.obj.cls = codec.m.cls
        /\ message_eq(codec.res.obj, codec.m)

\* C12: load_object() on a record whose module/classname pair resolves to no
\* type raises TypeResolutionError to its caller and returns no object.
C12_UnresolvedTypeIsRaised ==
    (codec.loaded /\ codec.rec.classname \notin codec.defined) =>
        /\ codec.res.err = "TypeResolutionError"
        /\ codec.res.obj = NoMsg

C12_Witness ==
    /\ codec.loaded
    /\ codec.rec.classname = "MyEvent"
    /\ codec.rec.classname \notin codec.defined
    /\ codec.res.err = "TypeResolutionError"
    /\ codec.rec.data["payload"] = DictOf(1)

\* C13: every __enter__ opens exactly one new session and stores, under every
\* annotation whose name does not start with "_", a repository made from that
\* session; _errors, _session_factory and _session never hold a repository;
\* and inside a scope the slots are bound to the session of that scope, the
\* one its __enter__ opened and its __exit__ is to close.
C13_EnterBindsRepositories ==
    /\ [](\A u \in UoWs : \A f \in Annotations :
            /\ fields[u][f].set <=> (_session[u] # 0 /\ f[1] # "_")
            /\ (fields[u][f].set /\ InScope(u) /\ exc[u] = "none") =>
                  fields[u][f].session = scopes[u][Len(scopes[u])].sess)
    /\ [][\A u \in UoWs :
            opened'[u] # opened[u] =>
                /\ opened'[u] = opened[u] + 1
                /\ _session'[u] = opened'[u]
                /\ \A k \in SessIds :
                     IF k = opened'[u]
                     THEN sess[u][k].st = "new" /\ sess'[u][k].st = "open"
                     ELSE sess'[u][k] = sess[u][k]
                /\ \A f \in Annotations :
                     IF f[1] = "_" THEN fields'[u][f] = fields[u][f]
                     ELSE fields'[u][f] = Repository(opened'[u])]_vars

\* C14: over successful updates, updates that fail on a discarded entity,
\* discards and reads, the version of an entity never decreases, and it
\* increases exactly in the steps that are a successful update().
C14_VersionNeverDecreases ==
    [][\A o \in constructed :
        /\ version'[o] >= version[o]
        /\ version'[o] > version[o] <=> calls'[o] = calls[o] + 1
        /\ calls'[o] # calls[o] => last' = Call("update", o, "none")]_vars

C14_Witness ==
    \E o \in constructed :
        /\ version0[o] = 0
        /\ calls[o] = 1
        /\ version[o] = 1
        /\ is_discarded[o]
        /\ last = Call("update", o, "EntityDiscardedError")

\* C15: in every state of an entity updated_at >= registered_at;
\* registered_at never changes and updated_at never goes back.
C15_UpdatedNotBeforeRegistered ==
    /\ [](\A o \in constructed : updated_at[o] >= registered_at[o])
    /\ [][\A o \in constructed :
            /\ registered_at'[o] = registered_at[o]
            /\ updated_at'[o] >= updated_at[o]]_vars

\* C16: DQLInterface(p).execute(uow, **params) builds its statement from the
\* template at p with the given parameters and passes it to
\* uow.execute_native_sql inside the scope.
C16_StatementFromConstructorPath ==
    dql.st \in {"raised", "returned"} =>
        /\ dql.st = "returned"
        /\ dql.passed.query = prepare_query(FileAt(dql.arg), dql.params)
        /\ dql.passed.session = opened[Caller]

\* C18: once all scopes of a unit of work have exited, every session an
\* __enter__ opened is closed, also when the instance was entered again inside
\* a scope, as DQLInterface.execute does for a caller that holds the scope.
C18_NoSessionLeaked ==
    \A u \in UoWs : ~InScope(u) =>
        \A k \in SessIds : k <= opened[u] => sess[u][k].st = "closed"

\* C17: a step of collect_new_events (the call, a next() on its generator,
\* dropping the generator) changes nothing but the pending queues of touched
\* aggregates, from which it only removes the event it yields: entity fields,
\* the repositories and their seen sets, the session and the committed rows
\* stay as they are.
C17_CollectOnlyDrains ==
    [][\A u \in UoWs :
        (\E g \in GenIds : gen'[u][g].st # gen[u][g].st \/ yielded'[u][g] # yielded[u][g]) =>
            /\ UNCHANGED <<entVars, fields, _session, scopes, opened, sess, stored, db, applied>>
            /\ \A o \in Obj :
                 \/ events'[o] = events[o]
                 \/ o \in Touched(u) /\ events[o] # <<>> /\ events'[o] = Tail(events[o])]_vars

C17_Witness ==
    /\ InScope(Caller)
    /\ sess[Caller][1].st = "open"
    /\ Len(yielded[Caller][1]) = 2
    /\ \E o \in constructed : o \notin Touched(Caller) /\ Len(events[o]) = 2
    /\ \E o \in Touched(Caller) : events[o] = <<>> /\ raised[o] = 2

\* C19: however generators are created, partly consumed, dropped and
\* interleaved with aggregates raising events, no event is yielded twice over
\* all generators, and the events not yet yielded are still pending in their
\* aggregate's queue, in the order raised.
C19_LazyNeverLosesOrRepeats ==
    \A o \in Obj :
        /\ drained[o] \o events[o] = RaisedSeq(o)
        /\ \A g \in GenIds : \A i, j \in 1..Len(yielded[o[1]][g]) :
              yielded[o[1]][g][i] = yielded[o[1]][g][j] => i = j
        /\ \A g, h \in GenIds : g # h =>
              \A i \in 1..Len(yielded[o[1]][g]), j \in 1..Len(yielded[o[1]][h]) :
                  yielded[o[1]][g][i] # yielded[o[1]][h][j]

C19_Witness ==
    \E o \in Touched(Caller) :
        /\ yielded[Caller][1] = <<<<o, 1>>>>
        /\ yielded[Caller][2] = <<<<o, 2>>>>
        /\ gen[Caller][1].st = "running"
        /\ gen[Caller][2].st = "running"
        /\ events[o] = <<>>
        /\ raised[o] = 2
====
